---- MODULE Spec2Model ----
(***************************************************************************)
(* A model of oracle-vector-db: the embedding service (src/src/            *)
(* embeddings.ts: an LRU/TTL cache in front of an embedding provider,      *)
(* batches dispatched through a p-queue gate) and the collection adapter   *)
(* (src/src/collection.ts: upsert, search, fetch, update, delete against   *)
(* one table of the store).                                                *)
(*                                                                         *)
(* Operations are asynchronous: a call runs synchronously up to its next   *)
(* await on the provider or on the store, and every action below is one    *)
(* such run-to-completion step of the JavaScript event loop.               *)
(***************************************************************************)
EXTENDS Integers, Sequences, FiniteSets, TLC

\* ------------------------------------------------------------- bounds
\* Calls in progress at a time, one per slot.
MaxOps == 2
\* The longest list of texts given to one embed call. Slot 1 takes the
\* embed calls, every slot the embedSingle calls.
MaxTexts == 3
\* The clock runs from 1 to MaxTime.
MaxTime == 3

\* ----------------------------------------------- program constants
\* The source's values are scaled down so that their cases happen within
\* the bounds: 100 texts per batch, 5 concurrent provider calls, 20
\* dispatches per interval of 1000 ms, 1000 cache entries, a TTL of one
\* hour (here 1 clock tick; the interval is 2 ticks).
BatchSize == 2
Concurrency == 2
IntervalCap == 3
Interval == 2
CacheMax == 2
TTL == 1

Slots == 1..MaxOps

EmbeddingModels == {"text-embedding-ada-002", "text-embedding-3-large"}
Texts == {"t1", "t2"}
\* Every text that reaches the embedding service.
AllTexts == Texts

\* getDimension: 1536 for ada-002, 3072 for 3-large, scaled to 2 and 3.
getDimension(model) == IF model = "text-embedding-3-large" THEN 3 ELSE 2

TextCode(text) ==
  CASE text = "t1" -> 1
    [] text = "t2" -> 2
    [] text = "{}" -> 3
    [] text = "{\"k\":5}" -> 4
    [] text = "{\"k\":10}" -> 5
    [] OTHER -> 9

\* The vector the provider computes for a text under a model: a function of
\* (model, text), of the model's dimension. The cache is keyed by (model,
\* text) on that premise.
ProviderEmbedding(model, text) ==
  [i \in 1..getDimension(model) |-> IF i = 1 THEN TextCode(text) ELSE 0]

\* A slot of the results array that was never assigned.
Hole == <<>>

VARIABLES
  now,      \* the clock (Date.now(), performance.now())
  cache,    \* EmbeddingService.cache: entries, least recently used first
  queue,    \* EmbeddingService.queue: the p-queue gate
  ops,      \* the calls in progress, one per slot
  store,    \* the rows of the collection's table
  last,     \* the call that has just returned, until its caller resumes
  served,   \* per cache key, the last single-text call that returned it
  config,   \* the CollectionConfig of the handle the calls go through
  client    \* OracleVectorDB: connected or not, its registry of handles,
            \* and the CollectionConfig the collection was created with

vars == <<now, cache, queue, ops, store, last, served, config, client>>

\* ------------------------------------------------------------- cache
\* `${model}:${text}`: no model name holds a colon, so the key determines
\* the pair.
CacheKey(model, text) == <<model, text>>

CacheIndex(c, k) ==
  IF \E i \in 1..Len(c) : c[i].key = k
  THEN CHOOSE i \in 1..Len(c) : c[i].key = k
  ELSE 0

RemoveAt(s, i) == SubSeq(s, 1, i - 1) \o SubSeq(s, i + 1, Len(s))

\* lru-cache: an entry is stale once its age exceeds the ttl.
IsStale(e, t) == t - e.start > TTL

\* cache.get with updateAgeOnGet: a hit starts the entry's TTL again.
CacheGetRefreshing(c, k, t) ==
  LET i == CacheIndex(c, k) IN
  IF i = 0 THEN [cache |-> c, hit |-> FALSE, value |-> Hole]
  ELSE IF IsStale(c[i], t)
       THEN [cache |-> RemoveAt(c, i), hit |-> FALSE, value |-> Hole]
       ELSE [cache |-> Append(RemoveAt(c, i), [c[i] EXCEPT !.start = t]),
             hit |-> TRUE, value |-> c[i].value]

\* cache.get: a stale entry is deleted and missed; a hit becomes the most
\* recently used entry and keeps its insertion time (no updateAgeOnGet).
CacheGet(c, k, t) ==
  LET i == CacheIndex(c, k) IN
  IF i = 0 THEN [cache |-> c, hit |-> FALSE, value |-> Hole]
  ELSE IF IsStale(c[i], t)
       THEN [cache |-> RemoveAt(c, i), hit |-> FALSE, value |-> Hole]
       ELSE [cache |-> Append(RemoveAt(c, i), c[i]), hit |-> TRUE,
             value |-> c[i].value]

\* cache.set that evicts the most recently used entry of a full cache.
CacheSetEvictingNewest(c, k, v, t) ==
  LET i == CacheIndex(c, k)
      e == [key |-> k, value |-> v, start |-> t, born |-> t]
  IN IF i # 0 THEN Append(RemoveAt(c, i), e)
     ELSE IF Len(c) >= CacheMax THEN Append(SubSeq(c, 1, Len(c) - 1), e)
     ELSE Append(c, e)

\* cache.set: replaces the key's entry or, when the cache is full, evicts
\* the least recently used entry; the entry's TTL starts now. born is
\* history: the time of the insertion.
CacheSet(c, k, v, t) ==
  LET i == CacheIndex(c, k)
      e == [key |-> k, value |-> v, start |-> t, born |-> t]
  IN IF i # 0 THEN Append(RemoveAt(c, i), e)
     ELSE IF Len(c) >= CacheMax THEN Append(Tail(c), e)
     ELSE Append(c, e)

\* ------------------------------------------------------------- p-queue
\* A task is <<slot, batch number>>. waiting: the FIFO of tasks not yet
\* started; running: the tasks whose provider call is in flight
\* (pendingCount is their number). starts is history, kept where the
\* initial state has it (<<>>: not kept): the number of tasks started at
\* each of the last Interval instants, the present one last.
EmptyQueue ==
  [waiting |-> <<>>, running |-> {}, intervalCount |-> 0,
   intervalId |-> FALSE, intervalDue |-> 0, intervalEnd |-> 0,
   timeoutId |-> FALSE, timeoutDue |-> 0, starts |-> <<>>]

\* The history of starts when a task starts, and when an instant passes.
Started(starts) ==
  IF starts = <<>> THEN starts ELSE [starts EXCEPT ![Interval] = @ + 1]
Elapse(q) ==
  [q EXCEPT !.starts = IF @ = <<>> THEN @ ELSE Tail(@) \o <<0>>]

\* _isIntervalPaused
IsIntervalPaused(q, t) ==
  IF ~q.intervalId
  THEN IF q.intervalEnd - t < 0
       THEN [q |-> [q EXCEPT !.intervalCount = 0], paused |-> FALSE]
       ELSE [q |-> IF q.timeoutId THEN q
                   ELSE [q EXCEPT !.timeoutId = TRUE,
                                  !.timeoutDue = q.intervalEnd],
             paused |-> TRUE]
  ELSE [q |-> q, paused |-> FALSE]

\* _initializeIntervalIfNeeded
InitializeIntervalIfNeeded(q, t) ==
  IF q.intervalId THEN q
  ELSE [q EXCEPT !.intervalId = TRUE, !.intervalDue = t + Interval,
                 !.intervalEnd = t + Interval]

\* _tryToStartAnother without the concurrency limit.
TryToStartAnotherUnlimited(q, t) ==
  IF Len(q.waiting) = 0
  THEN [q |-> [q EXCEPT !.intervalId = FALSE], started |-> FALSE]
  ELSE LET p == IsIntervalPaused(q, t)
           q1 == p.q
       IN IF q1.intervalCount < IntervalCap
          THEN LET q2 == [q1 EXCEPT !.waiting = Tail(@),
                                    !.running = @ \cup {Head(q1.waiting)},
                                    !.intervalCount = @ + 1,
                                    !.starts = Started(@)]
               IN [q |-> IF p.paused THEN q2
                         ELSE InitializeIntervalIfNeeded(q2, t),
                   started |-> TRUE]
          ELSE [q |-> q1, started |-> FALSE]

\* _tryToStartAnother: the head of the queue starts (its provider call is
\* issued) when both the interval cap and the concurrency allow it.
TryToStartAnother(q, t) ==
  IF Len(q.waiting) = 0
  THEN [q |-> [q EXCEPT !.intervalId = FALSE], started |-> FALSE]
  ELSE LET p == IsIntervalPaused(q, t)
           q1 == p.q
       IN IF q1.intervalCount < IntervalCap
             /\ Cardinality(q1.running) < Concurrency
          THEN LET q2 == [q1 EXCEPT !.waiting = Tail(@),
                                    !.running = @ \cup {Head(q1.waiting)},
                                    !.intervalCount = @ + 1,
                                    !.starts = Started(@)]
               IN [q |-> IF p.paused THEN q2
                         ELSE InitializeIntervalIfNeeded(q2, t),
                   started |-> TRUE]
          ELSE [q |-> q1, started |-> FALSE]

\* _processQueue: while (this._tryToStartAnother()) {}
RECURSIVE ProcessQueue(_, _)
ProcessQueue(q, t) ==
  LET r == TryToStartAnother(q, t)
  IN IF r.started THEN ProcessQueue(r.q, t) ELSE r.q

\* queue.add: enqueue, then one attempt to start the head of the queue.
QueueAdd(q, task, t) ==
  TryToStartAnother([q EXCEPT !.waiting = Append(@, task)], t).q

\* _next, after a task's function has settled.
QueueNext(q, task, t) ==
  TryToStartAnother([q EXCEPT !.running = @ \ {task}], t).q

\* _onInterval that resets the count and starts nothing.
QueueOnIntervalIdle(q, t) == [q EXCEPT !.intervalCount = 0]

\* _onInterval
QueueOnInterval(q, t) ==
  LET q1 == IF q.intervalCount = 0 /\ q.running = {} /\ q.intervalId
            THEN [q EXCEPT !.intervalId = FALSE]
            ELSE q
  IN ProcessQueue([q1 EXCEPT !.intervalCount = 0], t)

\* ------------------------------------------------------- embed, embedSingle
Min(a, b) == IF a < b THEN a ELSE b

\* results[i] = v on a JavaScript array: the array grows to hold index i
\* and the slots in between stay unassigned. Indices count from 1 here.
SetAt(arr, i, v) ==
  [j \in 1..(IF i > Len(arr) THEN i ELSE Len(arr)) |->
     IF j = i THEN v ELSE IF j <= Len(arr) THEN arr[j] ELSE Hole]

\* The loop of embed over its texts: a hit fills its slot of results, a
\* miss is collected with its index. Every lookup is a cache.get.
RECURSIVE EmbedLookup(_, _, _, _, _, _, _)
EmbedLookup(texts, model, i, c, results, toEmbed, t) ==
  IF i > Len(texts)
  THEN [cache |-> c, results |-> results, toEmbed |-> toEmbed]
  ELSE LET g == CacheGet(c, CacheKey(model, texts[i]), t)
       IN IF g.hit
          THEN EmbedLookup(texts, model, i + 1, g.cache,
                           SetAt(results, i, g.value), toEmbed, t)
          ELSE EmbedLookup(texts, model, i + 1, g.cache, results,
                           Append(toEmbed, [text |-> texts[i], index |-> i]), t)

\* createBatches that returns after its first slice.
createBatchesFirstSlice(items, batchSize) ==
  IF Len(items) = 0 THEN <<>>
  ELSE <<SubSeq(items, 1, IF batchSize < Len(items) THEN batchSize
                          ELSE Len(items))>>

RECURSIVE createBatches(_, _)
createBatches(items, batchSize) ==
  IF Len(items) = 0 THEN <<>>
  ELSE LET n == Min(batchSize, Len(items))
       IN <<SubSeq(items, 1, n)>>
            \o createBatches(SubSeq(items, n + 1, Len(items)), batchSize)

\* A batch as the call holds it: st is "pending" until the provider has
\* answered, then "ok" or "err".
NewBatch(items) == [items |-> items, st |-> "pending"]

\* What a fulfilled batch resolves to: each item's index with the
\* embedding the response holds at the item's position.
BatchOutput(model, batch) ==
  [idx \in 1..Len(batch.items) |->
     [index |-> batch.items[idx].index,
      embedding |-> ProviderEmbedding(model, batch.items[idx].text)]]

RECURSIVE Flat(_)
Flat(ss) == IF Len(ss) = 0 THEN <<>> ELSE Head(ss) \o Flat(Tail(ss))

\* WriteBack with the vectors appended to results instead of written to
\* their indices.
RECURSIVE WriteBackAppended(_, _, _, _, _, _)
WriteBackAppended(outs, texts, model, c, results, t) ==
  IF Len(outs) = 0 THEN [cache |-> c, results |-> results]
  ELSE LET b == Head(outs)
       IN WriteBackAppended(Tail(outs), texts, model,
                    CacheSet(c, CacheKey(model, texts[b.index]), b.embedding, t),
                    Append(results, b.embedding), t)

\* WriteBack without the cache.set.
RECURSIVE WriteBackUncached(_, _, _, _, _, _)
WriteBackUncached(outs, texts, model, c, results, t) ==
  IF Len(outs) = 0 THEN [cache |-> c, results |-> results]
  ELSE LET b == Head(outs)
       IN WriteBackUncached(Tail(outs), texts, model, c,
                    SetAt(results, b.index, b.embedding), t)

\* The loop of embed over embeddings.flat(): each vector goes to its own
\* index of results and into the cache.
RECURSIVE WriteBack(_, _, _, _, _, _)
WriteBack(outs, texts, model, c, results, t) ==
  IF Len(outs) = 0 THEN [cache |-> c, results |-> results]
  ELSE LET b == Head(outs)
       IN WriteBack(Tail(outs), texts, model,
                    CacheSet(c, CacheKey(model, texts[b.index]), b.embedding, t),
                    SetAt(results, b.index, b.embedding), t)

\* queue.add of the batches first..Len(batches) of slot s, in order.
RECURSIVE AddBatches(_, _, _, _, _)
AddBatches(q, s, first, n, t) ==
  IF first > n THEN q
  ELSE AddBatches(QueueAdd(q, <<s, first>>, t), s, first + 1, n, t)

\* The batches of slot s whose provider call has been issued.
Issued(q, op, s) ==
  {b \in 1..Len(op.batches) :
     op.batches[b].st # "pending" \/ <<s, b>> \in q.running}

IdleOp ==
  [kind |-> "none", pc |-> "idle", req |-> <<>>,
   texts |-> <<>>, model |-> "", results |-> <<>>, batches |-> <<>>,
   embed |-> "", outcome |-> "", result |-> <<>>, errId |-> "",
   stmts |-> <<>>, prior |-> <<>>, reordered |-> FALSE]

\* The synchronous part of embed(texts, model) in slot s, up to its await
\* of the batches: op.embed is "ok" when nothing was missed.
EmbedBegin(op, s, texts, model, c, q, t) ==
  LET l == EmbedLookup(texts, model, 1, c, <<>>, <<>>, t)
      bs == createBatches(l.toEmbed, BatchSize)
      batches == [b \in 1..Len(bs) |-> NewBatch(bs[b])]
  IN [op |-> [op EXCEPT !.texts = texts, !.model = model,
                        !.results = l.results, !.batches = batches,
                        !.embed = IF Len(bs) = 0 THEN "ok" ELSE "waiting"],
      cache |-> l.cache,
      queue |-> AddBatches(q, s, 1, Len(bs), t)]

\* The synchronous part of embedSingle(text, model): one cache.get, then
\* one task holding the text.
EmbedSingleBegin(op, s, text, model, c, q, t) ==
  LET g == CacheGet(c, CacheKey(model, text), t)
  IN IF g.hit
     THEN [op |-> [op EXCEPT !.texts = <<text>>, !.model = model,
                             !.results = <<g.value>>, !.embed = "ok"],
           cache |-> g.cache, queue |-> q]
     ELSE [op |-> [op EXCEPT !.texts = <<text>>, !.model = model,
                             !.batches = <<NewBatch(<<[text |-> text, index |-> 1]>>)>>,
                             !.embed = "waiting"],
           cache |-> g.cache,
           queue |-> QueueAdd(q, <<s, 1>>, t)]

\* EmbedSettle with a call that goes on waiting after a batch has failed.
EmbedSettleAwaiting(op, b, ok, c, t) ==
  [op |-> [op EXCEPT !.batches[b].st = IF ok THEN "ok" ELSE "err"],
   cache |-> c]

\* cache.set of the vectors of one batch.
RECURSIVE CacheBatch(_, _, _, _)
CacheBatch(c, model, items, t) ==
  IF Len(items) = 0 THEN c
  ELSE CacheBatch(CacheSet(c, CacheKey(model, Head(items).text),
                           ProviderEmbedding(model, Head(items).text), t),
                  model, Tail(items), t)

\* EmbedSettle that caches the vectors of a batch answered after its call
\* was rejected.
EmbedSettleCachingLate(op, b, ok, c, t) ==
  LET batches == [op.batches EXCEPT ![b].st = IF ok THEN "ok" ELSE "err"]
      early == \E i \in 1..(b - 1) : op.batches[i].st = "pending"
      op1 == [op EXCEPT !.batches = batches, !.reordered = @ \/ early]
  IN IF op.embed # "waiting"
     THEN [op |-> op1,
           cache |-> IF ok THEN CacheBatch(c, op.model, op.batches[b].items, t)
                     ELSE c]
     ELSE IF ~ok THEN [op |-> [op1 EXCEPT !.embed = "err"], cache |-> c]
     ELSE IF \A i \in 1..Len(batches) : batches[i].st = "ok"
     THEN LET w == WriteBack(Flat([i \in 1..Len(batches) |->
                                     BatchOutput(op.model, batches[i])]),
                             op.texts, op.model, c, op.results, t)
          IN [op |-> [op1 EXCEPT !.results = w.results, !.embed = "ok"],
              cache |-> w.cache]
     ELSE [op |-> op1, cache |-> c]

\* The provider has answered batch b of op. The call is rejected by its
\* first failed batch (Promise.all); when its last batch is fulfilled the
\* vectors are written back, in batch order.
EmbedSettle(op, b, ok, c, t) ==
  LET batches == [op.batches EXCEPT ![b].st = IF ok THEN "ok" ELSE "err"]
      \* history: a batch is answered before an earlier batch of the call
      early == \E i \in 1..(b - 1) : op.batches[i].st = "pending"
      op1 == [op EXCEPT !.batches = batches, !.reordered = @ \/ early]
  IN IF op.embed # "waiting" THEN [op |-> op1, cache |-> c]
     ELSE IF ~ok THEN [op |-> [op1 EXCEPT !.embed = "err"], cache |-> c]
     ELSE IF \A i \in 1..Len(batches) : batches[i].st = "ok"
     THEN LET w == WriteBack(Flat([i \in 1..Len(batches) |->
                                     BatchOutput(op.model, batches[i])]),
                             op.texts, op.model, c, op.results, t)
          IN [op |-> [op1 EXCEPT !.results = w.results, !.embed = "ok"],
              cache |-> w.cache]
     ELSE [op |-> op1, cache |-> c]

\* ------------------------------------------------- values and strings
\* A string the store compares is a sequence of characters.
Digit(d) ==
  CASE d = 0 -> "0" [] d = 1 -> "1" [] d = 2 -> "2" [] d = 3 -> "3"
    [] d = 4 -> "4" [] d = 5 -> "5" [] d = 6 -> "6" [] d = 7 -> "7"
    [] d = 8 -> "8" [] OTHER -> "9"

RECURSIVE Digits(_)
Digits(n) ==
  IF n < 10 THEN <<Digit(n)>> ELSE Digits(n \div 10) \o <<Digit(n % 10)>>

DigitValue(ch) == CHOOSE d \in 0..9 : Digit(d) = ch

RECURSIVE ParseNumber(_)
ParseNumber(chars) ==
  IF Len(chars) = 0 THEN 0
  ELSE 10 * ParseNumber(SubSeq(chars, 1, Len(chars) - 1))
         + DigitValue(chars[Len(chars)])

\* A metadata or filter value, of JavaScript type number, string or boolean.
Num(n) == [type |-> "number", n |-> n, s |-> <<>>]
Str(chars) == [type |-> "string", n |-> 0, s |-> chars]
Bool(b) == [type |-> "boolean", n |-> IF b THEN 1 ELSE 0, s |-> <<>>]

\* `${val}`, and the text JSON_VALUE returns for a scalar.
TemplateString(v) ==
  CASE v.type = "number" -> Digits(v.n)
    [] v.type = "string" -> v.s
    [] OTHER -> IF v.n = 1 THEN <<"t", "r", "u", "e">>
                ELSE <<"f", "a", "l", "s", "e">>

\* Metadata is a list of <<key, value>> pairs with distinct keys.
MetaHas(m, key) == \E i \in 1..Len(m) : m[i][1] = key
MetaGet(m, key) == m[CHOOSE i \in 1..Len(m) : m[i][1] = key][2]

\* JSON.stringify of the metadata the model uses, and JSON.parse back.
JSONstringify(m) ==
  CASE m = <<>> -> "{}"
    [] m = << <<"k", Num(5)>> >> -> "{\"k\":5}"
    [] m = << <<"k", Num(10)>> >> -> "{\"k\":10}"
    [] OTHER -> "{...}"

JSONparse(json) ==
  CASE json = "{\"k\":5}" -> << <<"k", Num(5)>> >>
    [] json = "{\"k\":10}" -> << <<"k", Num(10)>> >>
    [] OTHER -> <<>>

\* `[${vector.join(',')}]`: the decimal text of each component.
VectorLiteral(v) == [i \in 1..Len(v) |-> Digits(v[i])]
\* TO_VECTOR stores FLOAT32 components: a number is kept exactly up to the
\* width of the significand (2^24, scaled) and rounded to the nearest
\* representable number, ties to even, above it.
Float32Exact == 8
Float32(n) ==
  IF n <= Float32Exact THEN n
  ELSE IF n % 4 = 1 THEN n - 1
  ELSE IF n % 4 = 3 THEN n + 1
  ELSE n

\* TO_VECTOR, and parseVector on the way back.
TO_VECTOR(lit) == [i \in 1..Len(lit) |-> Float32(ParseNumber(lit[i]))]
parseVector(lit) == [i \in 1..Len(lit) |-> ParseNumber(lit[i])]

\* ------------------------------------------------------------ the store
Ids == {"x", "y"}

\* request.namespace || 'default'
Namespace(ns) == IF ns = "" THEN "default" ELSE ns

\* A row of the table: text "" is NULL, metadata is the JSON text. writers
\* is history: the namespaces of the requests that wrote the row's values.
NoRow ==
  [present |-> FALSE, namespace |-> "", embedding |-> <<>>, text |-> "",
   metadata |-> "", writers |-> {}]

EmptyStore == [id \in Ids |-> NoRow]

\* create(): the embedding column is VECTOR(config.dimension), of the
\* config the collection is created with.
TableDimension(cfg) == cfg.dimension

\* A column that takes a vector of any dimension.
ColumnAcceptsAny(cfg, lit) == TRUE

\* The store rejects a vector that is not of the column's dimension.
ColumnAccepts(cfg, lit) ==
  Len(TO_VECTOR(lit)) = TableDimension(client.created)

\* One row of the MERGE of upsert: ON (t.id = s.id), the matched row is
\* overwritten, namespace included; else the row is inserted.
MergeRow(st, bind) ==
  [st EXCEPT ![bind.id] =
     [present |-> TRUE, namespace |-> bind.namespace,
      embedding |-> TO_VECTOR(bind.embedding), text |-> bind.text,
      metadata |-> bind.metadata, writers |-> {bind.namespace}]]

RECURSIVE MergeRows(_, _)
MergeRows(st, binds) ==
  IF Len(binds) = 0 THEN st
  ELSE MergeRows(MergeRow(st, Head(binds)), Tail(binds))

\* JSON_VALUE(metadata, '$.key') cmp 'lit'; a missing key is NULL and no
\* comparison with NULL is true.
RECURSIVE StrLess(_, _)
CharCode(ch) ==
  CASE ch \in {Digit(d) : d \in 0..9} -> 48 + DigitValue(ch)
    [] ch = "a" -> 97 [] ch = "b" -> 98 [] ch = "e" -> 101 [] ch = "f" -> 102
    [] ch = "l" -> 108 [] ch = "r" -> 114 [] ch = "s" -> 115
    [] ch = "t" -> 116 [] ch = "u" -> 117 [] OTHER -> 122
StrLess(a, b) ==
  IF Len(b) = 0 THEN FALSE
  ELSE IF Len(a) = 0 THEN TRUE
  ELSE IF CharCode(a[1]) # CharCode(b[1]) THEN CharCode(a[1]) < CharCode(b[1])
  ELSE StrLess(Tail(a), Tail(b))

ConditionHolds(row, cond) ==
  /\ MetaHas(JSONparse(row.metadata), cond.key)
  /\ LET jv == TemplateString(MetaGet(JSONparse(row.metadata), cond.key))
     IN CASE cond.cmp = "=" -> jv = cond.lit
          [] cond.cmp = "!=" -> jv # cond.lit
          [] cond.cmp = ">" -> StrLess(cond.lit, jv)
          [] cond.cmp = ">=" -> ~StrLess(jv, cond.lit)
          [] cond.cmp = "<" -> StrLess(jv, cond.lit)
          [] cond.cmp = "<=" -> ~StrLess(cond.lit, jv)
          [] OTHER -> \E i \in 1..Len(cond.lits) : jv = cond.lits[i]

\* WHERE with no predicate on the namespace.
InAnyNamespace(row, namespace) == TRUE

\* WHERE namespace = :namespace
InNamespace(row, namespace) == row.namespace = namespace

\* WHERE namespace = :namespace AND cond AND ...
Selected(st, namespace, conds) ==
  {id \in Ids :
     /\ st[id].present
     /\ InNamespace(st[id], namespace)
     /\ \A i \in 1..Len(conds) : ConditionHolds(st[id], conds[i])}

\* The elements of a list.
Range(seq) == {seq[i] : i \in 1..Len(seq)}

\* DELETE of the rows ids.
DeleteRows(st, ids) == [id \in Ids |-> IF id \in ids THEN NoRow ELSE st[id]]

\* The order in which the store returns rows that nothing else orders.
Orders == {<<"x", "y">>, <<"y", "x">>}
Position(tie, id) == CHOOSE i \in 1..Len(tie) : tie[i] = id

\* VECTOR_DISTANCE(embedding, q, COSINE) as an exact fraction: the vectors
\* of the model have no negative component, so the order of the distances
\* is the reverse of the order of cos^2 = dot^2 / (|a|^2 |b|^2).
RECURSIVE Dot(_, _)
Dot(a, b) ==
  IF Len(a) = 0 \/ Len(b) = 0 THEN 0
  ELSE Head(a) * Head(b) + Dot(Tail(a), Tail(b))

Similarity(a, b) == [num |-> Dot(a, b) * Dot(a, b), den |-> Dot(a, a) * Dot(b, b)]
Closer(s1, s2) == s1.num * s2.den > s2.num * s1.den

\* ORDER BY score ASC over the rows ids, rows of equal score in the order
\* tie.
RECURSIVE OrderByScore(_, _, _, _)
OrderByScore(ids, st, q, tie) ==
  IF ids = {} THEN <<>>
  ELSE LET Before(a, b) ==
             LET sa == Similarity(st[a].embedding, q)
                 sb == Similarity(st[b].embedding, q)
             IN Closer(sa, sb)
                  \/ (~Closer(sb, sa) /\ Position(tie, a) < Position(tie, b))
           first == CHOOSE a \in ids : \A b \in ids \ {a} : Before(a, b)
       IN <<first>> \o OrderByScore(ids \ {first}, st, q, tie)

\* The rows ids in the order tie.
RECURSIVE OrderByTie(_, _)
OrderByTie(ids, tie) ==
  IF Len(tie) = 0 THEN <<>>
  ELSE (IF Head(tie) \in ids THEN <<Head(tie)>> ELSE <<>>)
         \o OrderByTie(ids, Tail(tie))

\* FETCH FIRST n ROWS ONLY: no row when n is not positive.
FetchFirst(rows, n) ==
  IF n <= 0 THEN <<>> ELSE SubSeq(rows, 1, Min(n, Len(rows)))

\* --------------------------------------------------- buildFilterConditions
\* A filter is the list of its entries, [key, isObject, value, ops]: value
\* is the literal of an entry that is not an object, ops the [op, val,
\* vals] pairs of one that is (vals: the list of $in).
Literal(key, v) == [key |-> key, isObject |-> FALSE, value |-> v, ops |-> <<>>]
Operators(key, operators) ==
  [key |-> key, isObject |-> TRUE, value |-> Num(0), ops |-> operators]
Op(op, v) == [op |-> op, val |-> v, vals |-> <<>>]
OpIn(vs) == [op |-> "$in", val |-> Num(0), vals |-> vs]

Condition(key, cmp, v) ==
  [key |-> key, cmp |-> cmp, lit |-> TemplateString(v), lits |-> <<>>]

\* The switch over one operator: the conditions it pushes.
OperatorConditions(key, o) ==
  CASE o.op = "$eq" -> <<Condition(key, "=", o.val)>>
    [] o.op = "$ne" -> <<Condition(key, "!=", o.val)>>
    [] o.op = "$gt" -> <<Condition(key, ">", o.val)>>
    [] o.op = "$gte" -> <<Condition(key, ">=", o.val)>>
    [] o.op = "$lt" -> <<Condition(key, "<", o.val)>>
    [] o.op = "$lte" -> <<Condition(key, "<=", o.val)>>
    [] o.op = "$in" ->
         <<[key |-> key, cmp |-> "IN", lit |-> <<>>,
            lits |-> [i \in 1..Len(o.vals) |-> TemplateString(o.vals[i])]]>>
    [] OTHER -> <<>>

RECURSIVE EntryConditions(_, _)
EntryConditions(key, operators) ==
  IF Len(operators) = 0 THEN <<>>
  ELSE OperatorConditions(key, Head(operators))
         \o EntryConditions(key, Tail(operators))

\* The conditions joined by AND; no condition is the empty string.
RECURSIVE buildFilterConditions(_)
buildFilterConditions(filter) ==
  IF Len(filter) = 0 THEN <<>>
  ELSE LET e == Head(filter)
       IN (IF e.isObject THEN EntryConditions(e.key, e.ops)
           ELSE <<Condition(e.key, "=", e.value)>>)
            \o buildFilterConditions(Tail(filter))

\* ------------------------------------------------------ the collection
\* The CollectionConfig: dimension and embeddingModel ("" when absent).
Configs ==
  {[dimension |-> 2, embeddingModel |-> ""],
   [dimension |-> 2, embeddingModel |-> "text-embedding-ada-002"],
   [dimension |-> 2, embeddingModel |-> "text-embedding-3-large"]}

\* this.embeddingService && this.config.embeddingModel: the constructor
\* makes the service when the connection has an API key, and it has one.
HasService(cfg) == cfg.embeddingModel # ""

\* A statement sent to the store: its verb and the text of the conditions
\* that follow the namespace in its WHERE. The literal of a condition is
\* part of the text; the namespace and the ids are bound.
Statement(verb, where) == [verb |-> verb, where |-> where]

\* The call of slot s returns.
Done(op, outcome, result, errId, stmts) ==
  [op EXCEPT !.pc = "done", !.outcome = outcome, !.result = result,
             !.errId = errId, !.stmts = stmts]

\* A document: vector is <<>> (absent) or <<v>>, text "" is absent, and
\* metadata absent is the empty object.
\* documents.map(doc => doc.text || JSON.stringify(doc.metadata || {}))
textsToEmbed(documents) ==
  [i \in 1..Len(documents) |->
     IF documents[i].text # "" THEN documents[i].text
     ELSE JSONstringify(documents[i].metadata)]

\* The loop of upsert over the documents: the binds, or the id of the
\* first document with no vector or one of another length.
RECURSIVE UpsertBinds(_, _, _, _, _, _)
UpsertBinds(documents, embeddings, cfg, namespace, i, binds) ==
  IF i > Len(documents) THEN [ok |-> TRUE, binds |-> binds, errId |-> ""]
  ELSE LET doc == documents[i]
           vector == IF doc.vector # <<>> THEN doc.vector
                     ELSE IF i <= Len(embeddings) THEN <<embeddings[i]>>
                     ELSE <<>>
       IN IF vector = <<>> \/ Len(vector[1]) # cfg.dimension
          THEN [ok |-> FALSE, binds |-> binds, errId |-> doc.id]
          ELSE UpsertBinds(documents, embeddings, cfg, namespace, i + 1,
                 Append(binds,
                   [id |-> doc.id, embedding |-> VectorLiteral(vector[1]),
                    text |-> doc.text,
                    metadata |-> JSONstringify(doc.metadata),
                    namespace |-> namespace]))

\* upsert up to its await of embed.
UpsertBegin(op, s, cfg, c, q, t) ==
  IF Len(op.req.documents) = 0
  THEN [op |-> Done(op, "ValidationError", <<>>, "", <<>>),
        cache |-> c, queue |-> q]
  ELSE IF HasService(cfg)
  THEN EmbedBegin(op, s, textsToEmbed(op.req.documents), cfg.embeddingModel,
                  c, q, t)
  ELSE [op |-> [op EXCEPT !.embed = "none"], cache |-> c, queue |-> q]

\* upsert from the line after its embed: validation, then the MERGE.
UpsertFinish(op, st, cfg) ==
  LET b == UpsertBinds(op.req.documents, op.results, cfg,
                       Namespace(op.req.namespace), 1, <<>>)
  IN IF ~b.ok
     THEN [op |-> Done(op, "ValidationError", <<>>, b.errId, <<>>),
           store |-> st]
     ELSE IF \E i \in 1..Len(b.binds) : ~ColumnAccepts(cfg, b.binds[i].embedding)
     THEN [op |-> Done(op, "CollectionError", <<>>, "", <<Statement("MERGE", <<>>)>>),
           store |-> st]
     ELSE [op |-> Done(op, "ok", <<>>, "", <<Statement("MERGE", <<>>)>>),
           store |-> MergeRows(st, b.binds)]

\* request.topK || 10
DefaultTopK == 10

\* search up to its await of embedSingle. vector and topK are <<>> when
\* absent; query "" is absent.
SearchBegin(op, s, cfg, c, q, t) ==
  IF op.req.vector = <<>> /\ op.req.query # ""
  THEN IF ~HasService(cfg)
       THEN [op |-> Done(op, "SearchError", <<>>, "", <<>>),
             cache |-> c, queue |-> q]
       ELSE EmbedSingleBegin(op, s, op.req.query, cfg.embeddingModel, c, q, t)
  ELSE [op |-> [op EXCEPT !.embed = "none"], cache |-> c, queue |-> q]

\* One match of search: the similarity is kept as the fraction cos^2.
Match(st, id, queryVector, req) ==
  [id |-> id,
   score |-> Similarity(st[id].embedding, queryVector),
   text |-> IF req.includeMetadata THEN <<st[id].text>> ELSE <<>>,
   metadata |-> IF req.includeMetadata THEN <<JSONparse(st[id].metadata)>>
                ELSE <<>>,
   vector |-> IF req.includeValues
              THEN <<parseVector(VectorLiteral(st[id].embedding))>> ELSE <<>>]

\* search from the line after its embedSingle. A filter absent is the
\* empty filter: both add no predicate.
SearchFinish(op, st, cfg, tie) ==
  LET req == op.req
      queryVector == IF req.vector # <<>> THEN req.vector
                     ELSE IF op.embed = "ok" THEN <<op.results[1]>>
                     ELSE <<>>
      topK == IF req.topK = <<>> \/ req.topK[1] = 0 THEN DefaultTopK
              ELSE req.topK[1]
      namespace == Namespace(req.namespace)
      conds == buildFilterConditions(req.filter)
      ids == Selected(st, namespace, conds)
  IN IF queryVector = <<>>
     THEN [op |-> Done(op, "ValidationError", <<>>, "", <<>>), store |-> st]
     ELSE LET qv == TO_VECTOR(VectorLiteral(queryVector[1]))
              rows == FetchFirst(OrderByScore(ids, st, qv, tie), topK)
          IN IF ids # {} /\ Len(qv) # TableDimension(client.created)
             THEN [op |-> Done(op, "SearchError", <<>>, "", <<Statement("SELECT", conds)>>),
                   store |-> st]
             ELSE [op |-> Done(op, "ok",
                               [matches |-> [i \in 1..Len(rows) |->
                                               Match(st, rows[i], qv, req)],
                                namespace |-> namespace],
                               "", <<Statement("SELECT", conds)>>),
                   store |-> st]

\* fetch: an empty list of ids makes IN (), which the store rejects.
Fetch(op, st, tie) ==
  LET namespace == Namespace(op.req.namespace)
      rows == OrderByTie(Selected(st, namespace, <<>>) \cap Range(op.req.ids),
                         tie)
  IN IF Len(op.req.ids) = 0
     THEN [op |-> Done(op, "CollectionError", <<>>, "", <<Statement("SELECT", <<>>)>>),
           store |-> st]
     ELSE [op |-> Done(op, "ok",
                       [i \in 1..Len(rows) |->
                          [id |-> rows[i], text |-> st[rows[i]].text,
                           metadata |-> JSONparse(st[rows[i]].metadata),
                           vector |-> parseVector(
                                        VectorLiteral(st[rows[i]].embedding))]],
                       "", <<Statement("SELECT", <<>>)>>),
           store |-> st]

\* update up to its await of embedSingle. metadata is <<>> when absent.
UpdateBegin(op, s, cfg, c, q, t) ==
  IF op.req.text # "" /\ HasService(cfg)
  THEN EmbedSingleBegin(op, s, op.req.text, cfg.embeddingModel, c, q, t)
  ELSE [op |-> [op EXCEPT !.embed = "none"], cache |-> c, queue |-> q]

\* update from the line after its embedSingle: UPDATE ... WHERE id = :id
\* AND namespace = :namespace.
UpdateFinish(op, st, cfg) ==
  LET req == op.req
      namespace == Namespace(req.namespace)
      embedded == req.text # "" /\ op.embed = "ok"
      rows == Selected(st, namespace, <<>>) \cap {req.id}
      Updated(row) ==
        [row EXCEPT
           !.metadata = IF req.metadata # <<>>
                        THEN JSONstringify(req.metadata[1]) ELSE @,
           !.text = IF req.text # "" THEN req.text ELSE @,
           !.embedding = IF embedded
                         THEN TO_VECTOR(VectorLiteral(op.results[1])) ELSE @,
           !.writers = @ \cup {namespace}]
  IN IF req.metadata = <<>> /\ req.text = ""
     THEN [op |-> Done(op, "ValidationError", <<>>, "", <<>>), store |-> st]
     ELSE IF /\ embedded /\ rows # {}
             /\ ~ColumnAccepts(cfg, VectorLiteral(op.results[1]))
     THEN [op |-> Done(op, "CollectionError", <<>>, "", <<Statement("UPDATE", <<>>)>>),
           store |-> st]
     ELSE [op |-> Done(op, "ok", <<>>, "", <<Statement("UPDATE", <<>>)>>),
           store |-> [id \in Ids |->
                        IF id \in rows THEN Updated(st[id]) ELSE st[id]]]

\* A statement with the rows it affected.
Affected(stmt, rows) == stmt @@ [rows |-> rows]

\* delete that returns after its first DELETE.
DeleteFirstMode(op, st) ==
  LET req == op.req
      namespace == Namespace(req.namespace)
      conds == buildFilterConditions(req.filter)
      rows == IF req.deleteAll THEN Selected(st, namespace, <<>>)
              ELSE IF Len(req.ids) > 0
              THEN Selected(st, namespace, <<>>) \cap Range(req.ids)
              ELSE IF Len(conds) > 0 THEN Selected(st, namespace, conds)
              ELSE {}
      where == IF ~req.deleteAll /\ Len(req.ids) = 0 THEN conds ELSE <<>>
  IN [op |-> Done(op, "ok", <<>>, "",
                  IF req.deleteAll \/ Len(req.ids) > 0 \/ Len(conds) > 0
                  THEN <<Affected(Statement("DELETE", where), rows)>>
                  ELSE <<>>),
      store |-> DeleteRows(st, rows)]

\* delete that sends the DELETE by filter whatever the filter compiles to.
DeleteUnguarded(op, st) ==
  LET req == op.req
      namespace == Namespace(req.namespace)
      all == Selected(st, namespace, <<>>)
      byIds == Len(req.ids) > 0
      rows1 == all \cap Range(req.ids)
      st1 == IF byIds THEN DeleteRows(st, rows1) ELSE st
      conds == buildFilterConditions(req.filter)
      byFilter == req.filter # <<>>
      rows2 == Selected(st1, namespace, conds)
      st2 == IF byFilter THEN DeleteRows(st1, rows2) ELSE st1
  IN IF req.deleteAll
     THEN [op |-> Done(op, "ok", <<>>, "",
                       <<Affected(Statement("DELETE", <<>>), all)>>),
           store |-> DeleteRows(st, all)]
     ELSE [op |-> Done(op, "ok", <<>>, "",
                       (IF byIds
                        THEN <<Affected(Statement("DELETE", <<>>), rows1)>>
                        ELSE <<>>)
                         \o (IF byFilter
                             THEN <<Affected(Statement("DELETE", conds), rows2)>>
                             ELSE <<>>)),
           store |-> st2]

\* delete: the whole namespace, or the ids and then the filter; a filter
\* that compiles to no condition deletes nothing.
Delete(op, st) ==
  LET req == op.req
      namespace == Namespace(req.namespace)
      all == Selected(st, namespace, <<>>)
      byIds == Len(req.ids) > 0
      rows1 == all \cap Range(req.ids)
      st1 == IF byIds THEN DeleteRows(st, rows1) ELSE st
      conds == buildFilterConditions(req.filter)
      byFilter == Len(conds) > 0
      rows2 == Selected(st1, namespace, conds)
      st2 == IF byFilter THEN DeleteRows(st1, rows2) ELSE st1
  IN IF req.deleteAll
     THEN [op |-> Done(op, "ok", <<>>, "",
                       <<Affected(Statement("DELETE", <<>>), all)>>),
           store |-> DeleteRows(st, all)]
     ELSE [op |-> Done(op, "ok", <<>>, "",
                       (IF byIds
                        THEN <<Affected(Statement("DELETE", <<>>), rows1)>>
                        ELSE <<>>)
                         \o (IF byFilter
                             THEN <<Affected(Statement("DELETE", conds), rows2)>>
                             ELSE <<>>)),
           store |-> st2]

\* ------------------------------------------------- bookkeeping of calls
\* The keys the cache holds.
CacheKeys(c) == {c[i].key : i \in 1..Len(c)}

Keys == {CacheKey(m, t) : m \in EmbeddingModels, t \in AllTexts}

\* A timer that is not armed has no due time.
Timers(q) ==
  [q EXCEPT !.intervalDue = IF q.intervalId THEN @ ELSE 0,
            !.timeoutDue = IF q.timeoutId THEN @ ELSE 0]

\* A call for one text, embed([t], m) or embedSingle(t, m).
IsSingle(op) == op.kind \in {"embed", "embedSingle"} /\ Len(op.texts) = 1

OpKey(op) == CacheKey(op.model, op.texts[1])

NoCall == [kind |-> "none"]
NotServed == [live |-> FALSE, until |-> 0, calls |-> 0, vector |-> <<>>]

\* The provider calls a call has issued: its batches that have left the
\* gate's queue.
ProviderCalls(q, op, s) == Cardinality(Issued(q, op, s))

\* History, per key: the last single-text call that called the provider
\* for the key and returned (the vector it returned, the provider calls it
\* made), whether the key has been neither cleared, evicted nor deleted as
\* stale since (live), and the time until which an entry written when the
\* call returned is fresh.
Serve(h, op, calls, t) ==
  IF IsSingle(op) /\ op.outcome = "ok" /\ calls > 0
  THEN [h EXCEPT ![OpKey(op)] =
          [live |-> TRUE, calls |-> calls, vector |-> op.result[1],
           until |-> t + TTL]]
  ELSE h

\* A key that leaves the cache in a step is no longer live.
Track(h, cOld, cNew) ==
  [k \in Keys |->
     IF k \in CacheKeys(cOld) \ CacheKeys(cNew) THEN NotServed ELSE h[k]]

\* At the start of a single-text call: the earlier call that was answered
\* by the provider for its key, if the key has been neither cleared,
\* evicted nor expired since that call returned.
Prior(model, text) ==
  LET h == served[CacheKey(model, text)]
  IN IF h.live /\ now <= h.until THEN <<h>> ELSE <<>>

\* A direct call of the service returns once its embedding has settled.
ContinueEmbed(op) ==
  CASE op.embed = "ok" ->
         [op EXCEPT !.pc = "done", !.outcome = "ok", !.result = op.results]
    [] op.embed = "err" ->
         [op EXCEPT !.pc = "done", !.outcome = "EmbeddingError"]
    [] OTHER -> [op EXCEPT !.pc = "embedding"]

\* client.search around the search of a collection: the matches are pushed
\* to the results; an error is caught, written to console.error, and the
\* loop goes on, so the call returns the results it has.
ClientSearchCatch(op) ==
  IF op.pc # "done" THEN op
  ELSE IF op.outcome = "ok"
  THEN [op EXCEPT !.result = [results |-> <<op.result.matches>>,
                              logged |-> <<>>]]
  ELSE [op EXCEPT !.outcome = "ok",
                  !.result = [results |-> <<>>, logged |-> <<op.outcome>>]]

\* What the caller of the embedding service does once the embedding has
\* settled, up to its next await: the call awaits still, or the rejection
\* of embed is the call's, or the call goes on to the store st.
Continue(op, st, cfg, tie) ==
  LET r == IF op.pc = "done" THEN [op |-> op, store |-> st]
           ELSE IF op.kind \in {"embed", "embedSingle"}
           THEN [op |-> ContinueEmbed(op), store |-> st]
           ELSE IF op.embed = "waiting"
           THEN [op |-> [op EXCEPT !.pc = "embedding"], store |-> st]
           ELSE IF op.embed = "err"
           THEN [op |-> Done(op, "EmbeddingError", <<>>, "", <<>>),
                 store |-> st]
           ELSE CASE op.kind = "upsert" -> UpsertFinish(op, st, cfg)
                  [] op.kind \in {"search", "clientSearch"} ->
                       SearchFinish(op, st, cfg, tie)
                  [] OTHER -> UpdateFinish(op, st, cfg)
  IN IF op.kind = "clientSearch"
     THEN [op |-> ClientSearchCatch(r.op), store |-> r.store]
     ELSE r

\* The slot of a call after a step: a returned call leaves its slot, but
\* for the tasks of a rejected embed that the gate still holds.
Settle(op, q, s) ==
  IF op.pc # "done" THEN op
  ELSE IF \E b \in 1..Len(op.batches) : op.batches[b].st = "pending"
       THEN [IdleOp EXCEPT !.pc = "zombie", !.batches = op.batches,
                           !.model = op.model]
       ELSE IdleOp

\* The record of a call that returns in a step.
Report(op, q, s) ==
  IF op.pc # "done" THEN NoCall
  ELSE [kind |-> op.kind, req |-> op.req, texts |-> op.texts,
        model |-> op.model, outcome |-> op.outcome, result |-> op.result,
        errId |-> op.errId, stmts |-> op.stmts, prior |-> op.prior,
        reordered |-> op.reordered, calls |-> ProviderCalls(q, op, s)]

\* History in the record of a call that returns: the keys that left the
\* cache in the step in which it returned.
Left(report, cOld, cNew) ==
  IF report = NoCall THEN NoCall
  ELSE report @@ [left |-> CacheKeys(cOld) \ CacheKeys(cNew)]

\* The effect of a step in which the call of slot s has become r.op and
\* the store r.store, on the cache c1 and the gate q1.
Step(s, r, c1, q1) ==
  /\ cache' = c1
  /\ queue' = Timers(q1)
  /\ ops' = [ops EXCEPT ![s] = Settle(r.op, q1, s)]
  /\ store' = r.store
  /\ last' = Left(Report(r.op, q1, s), cache, c1)
  /\ served' = Track(Serve(served, r.op, ProviderCalls(q1, r.op, s), now),
                     cache, c1)

\* ------------------------------------------------------------ actions
TextLists == UNION {[1..n -> Texts] : n \in 1..MaxTexts}

\* The model of the direct calls: the default of embed and embedSingle.
CallModels == {"text-embedding-ada-002"}

\* embed(texts, model), called on the service.
CallEmbed(s, texts, model) ==
  /\ last = NoCall
  /\ ops[s].pc = "idle"
  /\ LET r == EmbedBegin([IdleOp EXCEPT !.kind = "embed",
                            !.prior = IF Len(texts) = 1
                                      THEN Prior(model, texts[1]) ELSE <<>>],
                         s, texts, model, cache, queue, now)
     IN Step(s, Continue(r.op, store, config, <<>>), r.cache, r.queue)
  /\ UNCHANGED <<now, config, client>>

\* embedSingle(text, model), called on the service.
CallEmbedSingle(s, text, model) ==
  /\ last = NoCall
  /\ ops[s].pc = "idle"
  /\ LET r == EmbedSingleBegin([IdleOp EXCEPT !.kind = "embedSingle",
                                              !.prior = Prior(model, text)],
                               s, text, model, cache, queue, now)
     IN Step(s, Continue(r.op, store, config, <<>>), r.cache, r.queue)
  /\ UNCHANGED <<now, config, client>>

\* ------------------------------------------------ calls of the collection
Doc(id, vector, text, metadata) ==
  [id |-> id, vector |-> vector, text |-> text, metadata |-> metadata]

k5 == << <<"k", Num(5)>> >>
k10 == << <<"k", Num(10)>> >>

VectorOnly(id) == Doc(id, << <<0, 1>> >>, "", <<>>)
VectorAndText(id) == Doc(id, << <<1, 1>> >>, "t1", k5)
TextOnly(id) == Doc(id, <<>>, "t1", <<>>)
WrongDimension(id) == Doc(id, << <<1, 0, 0>> >>, "", <<>>)
NoVector(id) == Doc(id, <<>>, "", <<>>)
Precise(id) == Doc(id, << <<9, 1>> >>, "t1", k5)

DocumentLists ==
  {<<>>,
   <<VectorOnly("x")>>, <<VectorAndText("x")>>, <<TextOnly("x")>>,
   <<WrongDimension("x")>>, <<NoVector("x")>>,
   <<Precise("y")>>,
   <<VectorOnly("x"), WrongDimension("y")>>}

Namespaces == {"", "a"}

UpsertRequests ==
  {[namespace |-> ns, documents |-> docs] :
     ns \in Namespaces, docs \in DocumentLists}

Query(vector, query, topK, namespace, filter) ==
  [vector |-> vector, query |-> query, topK |-> topK, namespace |-> namespace,
   filter |-> filter, includeMetadata |-> TRUE, includeValues |-> TRUE]

\* {k: 5}, {k: {$gte: 5}}, {k: {$regex: 5}}, {k: {$eq: 5, $regex: 5}}
Filters ==
  {<<Literal("k", Num(5))>>,
   <<Operators("k", <<Op("$gte", Num(5))>>)>>,
   <<Operators("k", <<Op("$regex", Num(5))>>)>>,
   <<Operators("k", <<Op("$eq", Num(5)), Op("$regex", Num(5))>>)>>}

QueryRequests ==
  {Query(<< <<0, 1>> >>, "", <<>>, ns, <<>>) : ns \in Namespaces}
    \cup {Query(<< <<0, 1>> >>, "", <<k>>, "", <<>>) : k \in {-1, 0, 1}}
    \cup {Query(<< <<0, 1>> >>, "", <<>>, "", f) : f \in Filters}
    \cup {Query(<<>>, "", <<>>, "", <<>>),
          Query(<<>>, "t1", <<>>, "", <<>>),
          Query(<< <<0, 1>> >>, "t1", <<>>, "", <<>>)}

FetchRequests ==
  {[ids |-> ids, namespace |-> ns] :
     ids \in {<<"x">>, <<"x", "y">>}, ns \in Namespaces}

Update(namespace, metadata, text) ==
  [id |-> "x", namespace |-> namespace, metadata |-> metadata, text |-> text]

UpdateRequests ==
  {Update(ns, <<k10>>, "") : ns \in Namespaces}
    \cup {Update(ns, <<>>, "t1") : ns \in Namespaces}
    \cup {Update("", <<>>, "")}

DeleteRequest(namespace, deleteAll, ids, filter) ==
  [namespace |-> namespace, deleteAll |-> deleteAll, ids |-> ids,
   filter |-> filter]

DeleteRequests ==
  {DeleteRequest(ns, TRUE, <<>>, <<>>) : ns \in Namespaces}
    \cup {DeleteRequest("", FALSE, <<"x">>, <<>>)}
    \cup {DeleteRequest("", FALSE, <<>>, f) : f \in Filters \cup {<<>>}}
    \cup {DeleteRequest("", all, <<"y">>, <<Literal("k", Num(5))>>) :
            all \in BOOLEAN}

NewOp(kind, req) == [IdleOp EXCEPT !.kind = kind, !.req = req]

\* collection.upsert(req)
CallUpsert(s, req) ==
  /\ last = NoCall
  /\ ops[s].pc = "idle"
  /\ LET r == UpsertBegin(NewOp("upsert", req), s, config, cache, queue, now)
     IN Step(s, Continue(r.op, store, config, <<>>), r.cache, r.queue)
  /\ UNCHANGED <<now, config, client>>

\* collection.search(req)
CallSearch(s, req, tie) ==
  /\ last = NoCall
  /\ ops[s].pc = "idle"
  /\ LET r == SearchBegin(NewOp("search", req), s, config, cache, queue, now)
     IN Step(s, Continue(r.op, store, config, tie), r.cache, r.queue)
  /\ UNCHANGED <<now, config, client>>

\* collection.fetch(req)
CallFetch(s, req, tie) ==
  /\ last = NoCall
  /\ ops[s].pc = "idle"
  /\ Step(s, Fetch(NewOp("fetch", req), store, tie), cache, queue)
  /\ UNCHANGED <<now, config, client>>

\* collection.update(req)
CallUpdate(s, req) ==
  /\ last = NoCall
  /\ ops[s].pc = "idle"
  /\ LET r == UpdateBegin(NewOp("update", req), s, config, cache, queue, now)
     IN Step(s, Continue(r.op, store, config, <<>>), r.cache, r.queue)
  /\ UNCHANGED <<now, config, client>>

\* collection.delete(req)
CallDelete(s, req) ==
  /\ last = NoCall
  /\ ops[s].pc = "idle"
  /\ Step(s, Delete(NewOp("delete", req), store), cache, queue)
  /\ UNCHANGED <<now, config, client>>

\* clearCache()
ClearCache ==
  /\ last = NoCall
  /\ cache # <<>>
  /\ cache' = <<>>
  /\ served' = [k \in Keys |-> NotServed]
  /\ UNCHANGED <<now, queue, ops, store, last, config, client>>

\* The provider answers the call of task <<s, b>>, with the embeddings
\* (ok) or with a failure; the task's slot of the gate is released and the
\* call of slot s goes on if this settles its embedding.
ProviderRespond(s, b, ok, tie) ==
  /\ last = NoCall
  /\ <<s, b>> \in queue.running
  /\ LET r == EmbedSettle(ops[s], b, ok, cache, now)
         r1 == IF ops[s].pc = "embedding"
               THEN Continue(r.op, store, config, tie)
               ELSE [op |-> r.op, store |-> store]
     IN Step(s, r1, r.cache, QueueNext(queue, <<s, b>>, now))
  /\ UNCHANGED <<now, config, client>>

\* The gate's interval timer fires.
OnInterval ==
  /\ last = NoCall
  /\ queue.intervalId /\ queue.intervalDue <= now
  /\ LET q == QueueOnInterval(queue, now)
     IN queue' = Timers([q EXCEPT !.intervalDue =
                           IF @ <= now THEN @ + Interval ELSE @])
  /\ UNCHANGED <<now, cache, ops, store, last, served, config, client>>

\* _onResumeInterval: the timeout set while the interval was paused fires.
OnResumeInterval ==
  /\ last = NoCall
  /\ queue.timeoutId /\ queue.timeoutDue <= now
  /\ LET q == InitializeIntervalIfNeeded(QueueOnInterval(queue, now), now)
     IN queue' = Timers([q EXCEPT !.timeoutId = FALSE])
  /\ UNCHANGED <<now, cache, ops, store, last, served, config, client>>

TimerDue ==
  \/ queue.intervalId /\ queue.intervalDue <= now
  \/ queue.timeoutId /\ queue.timeoutDue <= now

\* Time passes; a timer that is due fires first.
Tick ==
  /\ last = NoCall
  /\ now < MaxTime
  /\ ~TimerDue
  /\ now' = now + 1
  /\ queue' = Elapse(queue)
  /\ UNCHANGED <<cache, ops, store, last, served, config, client>>

\* Time passes while a call of the collection awaits the embedding
\* service: its caller makes the calls without pause.
Wait ==
  /\ last = NoCall
  /\ \E s \in Slots : ops[s].pc = "embedding"
  /\ now < MaxTime
  /\ ~TimerDue
  /\ now' = now + 1
  /\ queue' = Elapse(queue)
  /\ UNCHANGED <<cache, ops, store, last, served, config, client>>

\* The caller of the call that has just returned resumes with its outcome,
\* before any other event is handled.
Resume ==
  /\ last # NoCall
  /\ last' = NoCall
  /\ UNCHANGED <<now, cache, queue, ops, store, served, config, client>>

\* client.createCollection(name, config): connected, the table created
\* with the config, the handle in the registry. connecting is the number
\* of connect calls that await connection.initialize(); pools is history:
\* the pools created since the client was last disconnected.
createCollection(cfg) ==
  [initialized |-> TRUE, collections |-> TRUE, created |-> cfg,
   connecting |-> 0, pools |-> 1]

\* extractDimension: the same number for every VECTOR column.
extractDimension(vectorColumn) == 2

\* getCollectionConfig: description.dimension || 1536, and the model.
DefaultDimension == 2
getCollectionConfig(vectorColumn) ==
  [dimension |-> IF extractDimension(vectorColumn) # 0
                 THEN extractDimension(vectorColumn) ELSE DefaultDimension,
   embeddingModel |-> "text-embedding-ada-002"]

\* client.disconnect(): the pool is closed and the registry cleared. The
\* caller has no call in progress.
Disconnect ==
  /\ last = NoCall
  /\ \A s \in Slots : ops[s].pc = "idle"
  /\ client.initialized
  /\ client' = [client EXCEPT !.initialized = FALSE, !.collections = FALSE,
                              !.pools = 0]
  /\ UNCHANGED <<now, cache, queue, ops, store, last, served, config>>

\* client.connect() up to its await: a client that is not initialized
\* starts connection.initialize(), whether or not another connect awaits
\* its own. At most MaxOps callers connect at a time.
ConnectBegin ==
  /\ last = NoCall
  /\ ~client.initialized
  /\ client.connecting < MaxOps
  /\ client' = [client EXCEPT !.connecting = @ + 1]
  /\ UNCHANGED <<now, cache, queue, ops, store, last, served, config>>

\* connection.initialize() of a connect call has created its pool, and
\* the call sets initialized.
ConnectFinish ==
  /\ last = NoCall
  /\ client.connecting > 0
  /\ client' = [client EXCEPT !.connecting = @ - 1, !.pools = @ + 1,
                              !.initialized = TRUE]
  /\ UNCHANGED <<now, cache, queue, ops, store, last, served, config>>

\* client.getCollection(name): connects if need be; the handle of the
\* registry, or a new Collection, with a new EmbeddingService, under the
\* config getCollectionConfig makes up. The calls go through it from now.
GetCollection ==
  /\ last = NoCall
  /\ \A s \in Slots : ops[s].pc = "idle"
  /\ client' = [client EXCEPT !.initialized = TRUE, !.collections = TRUE,
                              !.pools = IF client.initialized THEN @
                                        ELSE @ + 1]
  /\ IF client.collections
     THEN UNCHANGED <<cache, queue, served, config>>
     ELSE /\ config' = getCollectionConfig(TableDimension(client.created))
          /\ cache' = <<>>
          /\ queue' = EmptyQueue
          /\ served' = [k \in Keys |-> NotServed]
  /\ UNCHANGED <<now, ops, store, last>>

\* client.search(query, [name]) of a connected client whose registry holds
\* the handle: collection.search({query, topK, includeMetadata: true}).
ClientSearch(s, query, tie) ==
  /\ last = NoCall
  /\ ops[s].pc = "idle"
  /\ client.initialized /\ client.collections
  /\ LET req == [vector |-> <<>>, query |-> query, topK |-> <<DefaultTopK>>,
                 namespace |-> "", filter |-> <<>>,
                 includeMetadata |-> TRUE, includeValues |-> FALSE]
         r == SearchBegin(NewOp("clientSearch", req), s, config, cache, queue,
                          now)
     IN Step(s, Continue(r.op, store, config, tie), r.cache, r.queue)
  /\ UNCHANGED <<now, config, client>>

\* After construction: a service with an empty cache and an idle gate.
Constructed ==
  /\ now = 1
  /\ cache = <<>>
  /\ queue = EmptyQueue
  /\ ops = [s \in Slots |-> IdleOp]
  /\ store = EmptyStore
  /\ last = NoCall
  /\ served = [k \in Keys |-> NotServed]

\* The service on its own.
InitEmbed ==
  /\ Constructed
  /\ config = [dimension |-> 2, embeddingModel |-> ""]
  /\ client = createCollection(config)

\* The service on its own, the starts of its tasks recorded.
InitRate ==
  /\ now = 1
  /\ cache = <<>>
  /\ queue = [EmptyQueue EXCEPT !.starts = [i \in 1..Interval |-> 0]]
  /\ ops = [s \in Slots |-> IdleOp]
  /\ store = EmptyStore
  /\ last = NoCall
  /\ served = [k \in Keys |-> NotServed]
  /\ config = [dimension |-> 2, embeddingModel |-> ""]
  /\ client = createCollection(config)

\* A collection after create(): an empty table, under any of the configs.
Init == Constructed /\ config \in Configs /\ client = createCollection(config)

\* The embedding service under direct calls.
NextEmbed ==
  \/ \E texts \in TextLists, model \in CallModels : CallEmbed(1, texts, model)
  \/ \E s \in Slots, text \in Texts, model \in CallModels :
       CallEmbedSingle(s, text, model)
  \/ ClearCache
  \/ \E s \in Slots, b \in 1..MaxTexts, ok \in BOOLEAN :
       ProviderRespond(s, b, ok, <<>>)
  \/ OnInterval
  \/ OnResumeInterval
  \/ Tick
  \/ Resume

SpecEmbed == InitEmbed /\ [][NextEmbed]_vars

\* The clock of the runs that are followed to their end: the calls are made
\* before MaxTime and the gate has two more intervals to let their tasks go.
MaxTimeLive == MaxTime + 2 * Interval

\* The embedding service under calls for more keys than the cache holds.
NextCache ==
  \/ \E text \in Texts, model \in EmbeddingModels :
       CallEmbedSingle(1, text, model)
  \/ CallEmbed(1, <<"t1", "t2">>, "text-embedding-ada-002")
  \/ ClearCache
  \/ \E b \in 1..MaxTexts, ok \in BOOLEAN : ProviderRespond(1, b, ok, <<>>)
  \/ OnInterval
  \/ OnResumeInterval
  \/ Tick
  \/ Resume

SpecCache == InitEmbed /\ [][NextCache]_vars

\* Time passes, beyond the last instant at which a call is made.
TickLive ==
  /\ last = NoCall
  /\ now < MaxTimeLive
  /\ ~TimerDue
  /\ now' = now + 1
  /\ queue' = Elapse(queue)
  /\ UNCHANGED <<cache, ops, store, last, served, config, client>>

\* The provider answers a call, with the embeddings or with a failure.
ProviderAnswers ==
  \E s \in Slots, b \in 1..MaxTexts, ok \in BOOLEAN :
    ProviderRespond(s, b, ok, <<>>)

\* The lists of the embed calls that are followed to their end: two
\* batches, and one.
LiveTextLists == {<<"t1", "t2", "t1">>, <<"t2">>}

\* The embedding service under direct calls, followed to the end of the
\* work the calls leave in the gate.
NextLive ==
  \/ \E texts \in LiveTextLists, model \in CallModels :
       now < MaxTime /\ CallEmbed(1, texts, model)
  \/ \E s \in Slots, model \in CallModels :
       now < MaxTime /\ CallEmbedSingle(s, "t1", model)
  \/ ProviderAnswers
  \/ OnInterval
  \/ OnResumeInterval
  \/ TickLive
  \/ Resume

\* The event loop runs every continuation, and every timer that is due and
\* every answer of the provider although the callers go on making calls
\* in between; the clock advances; the provider answers every call.
SpecLive ==
  /\ InitEmbed
  /\ [][NextLive]_vars
  /\ SF_vars(ProviderAnswers)
  /\ SF_vars(OnInterval)
  /\ SF_vars(OnResumeInterval)
  /\ SF_vars(TickLive)
  /\ WF_vars(Resume)

\* The service under calls of embedSingle, for the rate of its tasks.
NextRate ==
  \/ \E s \in Slots, text \in Texts, model \in CallModels :
       CallEmbedSingle(s, text, model)
  \/ ClearCache
  \/ \E s \in Slots, ok \in BOOLEAN : ProviderRespond(s, 1, ok, <<>>)
  \/ OnInterval
  \/ OnResumeInterval
  \/ Tick
  \/ Resume

SpecRate == InitRate /\ [][NextRate]_vars

\* The collection under a caller that awaits each call before the next.
Next ==
  \/ \E req \in UpsertRequests : CallUpsert(1, req)
  \/ \E req \in QueryRequests, tie \in Orders : CallSearch(1, req, tie)
  \/ \E req \in FetchRequests, tie \in Orders : CallFetch(1, req, tie)
  \/ \E req \in UpdateRequests : CallUpdate(1, req)
  \/ \E req \in DeleteRequests : CallDelete(1, req)
  \/ \E b \in 1..MaxTexts, ok \in BOOLEAN, tie \in Orders :
       ProviderRespond(1, b, ok, tie)
  \/ OnInterval
  \/ OnResumeInterval
  \/ Wait
  \/ Resume

Spec == Init /\ [][Next]_vars

\* The configs a collection of the client is created with.
ClientConfigs ==
  {[dimension |-> 2, embeddingModel |-> ""],
   [dimension |-> 3, embeddingModel |-> "text-embedding-3-large"]}

InitClient ==
  /\ Constructed
  /\ config \in ClientConfigs
  /\ client = createCollection(config)

\* A client that upserts and fetches while it is connected, disconnects,
\* and gets the collection again.
NextClient ==
  \/ \E req \in UpsertRequests : client.initialized /\ CallUpsert(1, req)
  \/ \E req \in FetchRequests, tie \in Orders :
       client.initialized /\ CallFetch(1, req, tie)
  \/ \E tie \in Orders : ClientSearch(1, "t1", tie)
  \/ \E b \in 1..MaxTexts, ok \in BOOLEAN, tie \in Orders :
       ProviderRespond(1, b, ok, tie)
  \/ OnInterval
  \/ OnResumeInterval
  \/ Wait
  \/ Resume
  \/ Disconnect
  \/ GetCollection

SpecClient == InitClient /\ [][NextClient]_vars

\* A client whose callers connect, disconnect and get the collection at any
\* time, and upsert one document while it is connected.
NextConnect ==
  \/ client.initialized
       /\ CallUpsert(1, [namespace |-> "", documents |-> <<VectorOnly("x")>>])
  \/ \E b \in 1..MaxTexts, ok \in BOOLEAN :
       ProviderRespond(1, b, ok, <<>>)
  \/ OnInterval
  \/ OnResumeInterval
  \/ Wait
  \/ Resume
  \/ Disconnect
  \/ ConnectBegin
  \/ ConnectFinish
  \/ GetCollection

SpecConnect == InitClient /\ [][NextConnect]_vars

\* ------------------------------------------------------------- claims
\* C1: an embed call that returns, returns one vector per text, and the
\* vector at position i is the one computed for texts[i], whatever the
\* hits and misses and the order in which its batches were answered.
C1_OrderPreserved ==
  (last.kind = "embed" /\ last.outcome = "ok") =>
     /\ Len(last.result) = Len(last.texts)
     /\ \A i \in 1..Len(last.texts) :
          last.result[i] = ProviderEmbedding(last.model, last.texts[i])

\* An embed call has returned whose second batch was answered before its
\* first.
C1_Witness ==
  /\ last.kind = "embed" /\ last.outcome = "ok"
  /\ last.reordered
  /\ last.calls = 2

\* C2: a single-text call (embed([t], m) or embedSingle(t, m)) made after
\* an earlier single-text call for the same key was answered by the
\* provider and returned, with no clearCache, eviction or expiry of the key
\* since, does not wait for the provider: it returns the vector the earlier
\* call returned, and the two calls made one provider call in total.
C2_CacheIdempotent ==
  /\ \A s \in Slots : ops[s].pc = "embedding" => ops[s].prior = <<>>
  /\ (last.kind \in {"embed", "embedSingle"} /\ last.prior # <<>>) =>
        /\ last.outcome = "ok"
        /\ last.result = <<last.prior[1].vector>>
        /\ last.prior[1].calls + last.calls = 1

\* A second call for a key has returned, made after the first returned.
C2_Witness ==
  /\ last.kind = "embedSingle" /\ last.prior # <<>>
  /\ last.outcome = "ok"

\* C3: every document a search or a fetch scoped to a namespace returns is
\* a row stored under that namespace, with the row's values, and the values
\* of a row were all written by requests of the row's namespace: nothing
\* upserted into another namespace is returned.
C3_NamespaceIsolation ==
  LET Scoped(id) ==
        store[id].present /\ store[id].namespace = Namespace(last.req.namespace)
  IN /\ \A id \in Ids :
          store[id].present => store[id].writers = {store[id].namespace}
     /\ (last.kind = "search" /\ last.outcome = "ok") =>
          \A i \in 1..Len(last.result.matches) :
            LET m == last.result.matches[i]
            IN Scoped(m.id) /\ m.vector = <<store[m.id].embedding>>
     /\ (last.kind = "fetch" /\ last.outcome = "ok") =>
          \A i \in 1..Len(last.result) :
            LET d == last.result[i]
            IN /\ Scoped(d.id)
               /\ d.vector = store[d.id].embedding
               /\ d.text = store[d.id].text

\* A fetch of two ids has returned one document, the other id being that
\* of a document of another namespace.
C3_Witness ==
  /\ last.kind = "fetch" /\ last.outcome = "ok"
  /\ Len(last.req.ids) = 2 /\ Len(last.result) = 1
  /\ \E id \in Range(last.req.ids) :
       /\ store[id].present
       /\ store[id].namespace # Namespace(last.req.namespace)

\* C4: an upsert into a namespace leaves every document of another
\* namespace as it was, its id being in the batch or not (so that the same
\* id can be that of two documents, one per namespace).
C4_UpsertKeyedByIdAndNamespace ==
  [][last'.kind = "upsert" =>
       \A id \in Ids :
         (store[id].present
            /\ store[id].namespace # Namespace(last'.req.namespace))
           => store'[id] = store[id]]_vars

\* A document that resolves to no vector or to one of another length than
\* the dimension: its vector if it has one, else the provider's for its
\* text.
Offending(doc) ==
  IF doc.vector # <<>> THEN Len(doc.vector[1]) # config.dimension
  ELSE \/ ~HasService(config)
       \/ getDimension(config.embeddingModel) # config.dimension

\* C5: an upsert of a batch with an offending document raises
\* ValidationError with the id of an offending document and writes
\* nothing. (An upsert that the provider failed, of a batch in which some
\* document has no vector of its own, may raise EmbeddingError.)
C5_FailFastBeforeWrite ==
  [][(/\ last'.kind = "upsert"
      /\ \E i \in 1..Len(last'.req.documents) :
           Offending(last'.req.documents[i])
      /\ \/ last'.outcome # "EmbeddingError"
         \/ \A i \in 1..Len(last'.req.documents) :
              last'.req.documents[i].vector # <<>>)
       => /\ last'.outcome = "ValidationError"
          /\ \E i \in 1..Len(last'.req.documents) :
               /\ Offending(last'.req.documents[i])
               /\ last'.errId = last'.req.documents[i].id
          /\ store' = store]_vars

\* C6: every stored document has a vector of the collection's dimension,
\* after upserts and after updates that re-embed a text.
C6_StoredDimension ==
  \A id \in Ids :
    store[id].present => Len(store[id].embedding) = config.dimension

\* An update has re-embedded its text and written the row.
C6_Witness ==
  /\ last.kind = "update" /\ last.outcome = "ok"
  /\ last.req.text # "" /\ HasService(config)
  /\ store[last.req.id].present
  /\ store[last.req.id].namespace = Namespace(last.req.namespace)
  /\ store[last.req.id].embedding
       = ProviderEmbedding(config.embeddingModel, last.req.text)

\* C7: an upsert of documents that all have a vector, one of them a text
\* too, makes no provider call, is not failed by the provider, and stores
\* the vectors given.
C7_ExplicitVectorWins ==
  (/\ last.kind = "upsert"
   /\ \A i \in 1..Len(last.req.documents) : last.req.documents[i].vector # <<>>
   /\ \E i \in 1..Len(last.req.documents) : last.req.documents[i].text # "")
    => /\ last.calls = 0
       /\ last.outcome # "EmbeddingError"
       /\ last.outcome = "ok" =>
            \A i \in 1..Len(last.req.documents) :
              store[last.req.documents[i].id].embedding
                = last.req.documents[i].vector[1]

\* C8: a search with neither vector nor query, or with both, raises
\* ValidationError and issues no statement.
C8_ExactlyOneOfVectorAndQuery ==
  (/\ last.kind = "search"
   /\ (last.req.vector = <<>>) = (last.req.query = ""))
    => last.outcome = "ValidationError" /\ last.stmts = <<>>

\* C9: a search returns at most topK matches (10 when topK is absent), and
\* one whose topK is 0 or negative raises ValidationError.
C9_TopKBound ==
  /\ (last.kind = "search" /\ last.outcome = "ok") =>
       Len(last.result.matches)
         <= (IF last.req.topK = <<>> THEN DefaultTopK ELSE last.req.topK[1])
  /\ (last.kind = "search" /\ last.req.topK # <<>> /\ last.req.topK[1] <= 0)
       => last.outcome = "ValidationError"

SupportedOperators == {"$eq", "$ne", "$gt", "$gte", "$lt", "$lte", "$in"}

\* C10: a search, or a delete by filter, whose filter has an operator that
\* is not supported raises ValidationError.
C10_UnsupportedOperatorFails ==
  (/\ last.kind \in {"search", "delete"}
   /\ \E i \in 1..Len(last.req.filter) :
        \E j \in 1..Len(last.req.filter[i].ops) :
          last.req.filter[i].ops[j].op \notin SupportedOperators
   /\ last.kind = "delete" => ~last.req.deleteAll)
    => last.outcome = "ValidationError"

\* The filter with every literal replaced by 0.
EraseLiterals(filter) ==
  [i \in 1..Len(filter) |->
     [filter[i] EXCEPT
        !.value = Num(0),
        !.ops = [j \in 1..Len(@) |->
                   [@[j] EXCEPT !.val = Num(0),
                                !.vals = [n \in 1..Len(@) |-> Num(0)]]]]]

\* C11: the text of every statement a search or a delete issues for a
\* filter is the text issued for the filter of the same keys and operators
\* with other literals: no literal of the filter is in the text.
C11_LiteralsAreBound ==
  (last.kind \in {"search", "delete"} /\ Len(last.req.filter) > 0) =>
     \A i \in 1..Len(last.stmts) :
       \/ last.stmts[i].where = <<>>
       \/ last.stmts[i].where
            = buildFilterConditions(EraseLiterals(last.req.filter))

\* The reference evaluation of a filter on a document's metadata: values
\* are compared by their type, numbers as numbers.
SameValue(a, b) == a.type = b.type /\ a.n = b.n /\ a.s = b.s
ValueLess(a, b) ==
  /\ a.type = b.type
  /\ CASE a.type = "number" -> a.n < b.n
       [] a.type = "string" -> StrLess(a.s, b.s)
       [] OTHER -> FALSE

ReferenceOperator(v, o) ==
  CASE o.op = "$eq" -> SameValue(v, o.val)
    [] o.op = "$ne" -> ~SameValue(v, o.val)
    [] o.op = "$gt" -> ValueLess(o.val, v)
    [] o.op = "$gte" -> ValueLess(o.val, v) \/ SameValue(v, o.val)
    [] o.op = "$lt" -> ValueLess(v, o.val)
    [] o.op = "$lte" -> ValueLess(v, o.val) \/ SameValue(v, o.val)
    [] OTHER -> \E i \in 1..Len(o.vals) : SameValue(v, o.vals[i])

ReferenceHolds(filter, metadata) ==
  \A i \in 1..Len(filter) :
    LET e == filter[i]
    IN /\ MetaHas(metadata, e.key)
       /\ IF e.isObject
          THEN \A j \in 1..Len(e.ops) :
                 ReferenceOperator(MetaGet(metadata, e.key), e.ops[j])
          ELSE SameValue(MetaGet(metadata, e.key), e.value)

\* C12: the documents a search with a filter of supported operators
\* returns (no topK given) are those of the namespace that the reference
\* evaluation of the filter selects.
C12_FilterMatchesReference ==
  (/\ last.kind = "search" /\ last.outcome = "ok"
   /\ last.req.topK = <<>>
   /\ \A i \in 1..Len(last.req.filter) :
        \A j \in 1..Len(last.req.filter[i].ops) :
          last.req.filter[i].ops[j].op \in SupportedOperators)
    => {last.result.matches[i].id : i \in 1..Len(last.result.matches)}
         = {id \in Ids :
              /\ store[id].present
              /\ store[id].namespace = Namespace(last.req.namespace)
              /\ ReferenceHolds(last.req.filter,
                                JSONparse(store[id].metadata))}

\* C13: at most Concurrency provider calls of the service are in flight,
\* over all the calls of embed and embedSingle in progress.
C13_ConcurrencyBound == Cardinality(queue.running) <= Concurrency

\* Concurrency calls are in flight and a task that the interval would let
\* start waits for one of them.
C13_Witness ==
  /\ Cardinality(queue.running) = Concurrency
  /\ Len(queue.waiting) > 0
  /\ queue.intervalCount < IntervalCap
  /\ \E s1, s2 \in Slots : s1 # s2 /\ \E b \in 1..MaxTexts :
       <<s1, b>> \in queue.running /\ Head(queue.waiting)[1] = s2

RECURSIVE Sum(_)
Sum(seq) == IF Len(seq) = 0 THEN 0 ELSE Head(seq) + Sum(Tail(seq))

\* C14: in every window of the length of the interval, wherever it starts,
\* at most IntervalCap tasks are started.
C14_RollingRateBound == Sum(queue.starts) <= IntervalCap

\* C15: a call of embed is rejected as soon as one of its batches has
\* failed; a batch that has been answered is not sent again; and the cache
\* takes vectors only from calls that return them: a call that fails
\* leaves the cache as it was.
C15_FailedBatch ==
  /\ [](\A s \in Slots :
          /\ ops[s].pc = "embedding" =>
               \A b \in 1..Len(ops[s].batches) : ops[s].batches[b].st # "err"
          /\ \A b \in 1..Len(ops[s].batches) :
               ops[s].batches[b].st # "pending" =>
                 /\ <<s, b>> \notin queue.running
                 /\ <<s, b>> \notin Range(queue.waiting))
  /\ [][LET added == CacheKeys(cache') \ CacheKeys(cache)
              returned == last'.kind \in {"embed", "embedSingle"}
          IN /\ (added # {}) =>
                  (/\ returned
                   /\ last'.outcome = "ok"
                   /\ added \subseteq {CacheKey(last'.model, last'.texts[i]) :
                                         i \in 1..Len(last'.texts)})
             /\ (returned /\ last'.outcome = "EmbeddingError") =>
                  (cache' = cache)]_vars

\* An embed of two batches has failed, both batches sent.
C15_Witness ==
  /\ last.kind = "embed" /\ last.outcome = "EmbeddingError"
  /\ last.calls = 2

\* The call that has just returned was answered from the cache alone.
ServedFromCache ==
  /\ last.kind \in {"embed", "embedSingle"}
  /\ last.outcome = "ok"
  /\ last.calls = 0

\* The entry of the i-th text of the call that has just returned.
EntryOf(i) ==
  cache[CacheIndex(cache, CacheKey(last.model, last.texts[i]))]

\* C16, as the code has it: an entry inserted at time t is not served
\* after t + TTL, however often it was read, and a request after that
\* calls the provider; at t + TTL itself it is still served.
C16_NotServedAfterTTL ==
  ServedFromCache =>
    \A i \in 1..Len(last.texts) :
      /\ CacheIndex(cache, CacheKey(last.model, last.texts[i])) # 0
      /\ now <= EntryOf(i).born + TTL

\* An entry has been served at the last instant of its TTL.
C16_Witness ==
  /\ ServedFromCache
  /\ \E i \in 1..Len(last.texts) : now = EntryOf(i).born + TTL

\* C16 as stated: an entry inserted at time t is never served at or after
\* t + TTL.
C16_NotServedAtTTL ==
  ServedFromCache =>
    \A i \in 1..Len(last.texts) :
      /\ CacheIndex(cache, CacheKey(last.model, last.texts[i])) # 0
      /\ now < EntryOf(i).born + TTL

\* C17: after an update with a text of a document that exists, the stored
\* vector is the embedding of the text, whether the collection has an
\* embedding model or not.
C17_UpdateReembeds ==
  (/\ last.kind = "update" /\ last.outcome = "ok"
   /\ last.req.text # ""
   /\ store[last.req.id].present
   /\ store[last.req.id].namespace = Namespace(last.req.namespace))
    => /\ HasService(config)
       /\ store[last.req.id].embedding
            = ProviderEmbedding(config.embeddingModel, last.req.text)

\* The modes a delete request asks for.
RequestedModes(req) ==
  (IF req.deleteAll THEN {"deleteAll"} ELSE {})
    \cup (IF Len(req.ids) > 0 THEN {"ids"} ELSE {})
    \cup (IF req.filter # <<>> THEN {"filter"} ELSE {})

\* The request that asks for one mode of req alone.
OnlyMode(req, mode) ==
  DeleteRequest(req.namespace, mode = "deleteAll",
                IF mode = "ids" THEN req.ids ELSE <<>>,
                IF mode = "filter" THEN req.filter ELSE <<>>)

\* The orders in which the modes of a set can be applied.
ModeOrders(modes) ==
  {order \in [1..Cardinality(modes) -> modes] :
     \A i, j \in 1..Cardinality(modes) : order[i] = order[j] => i = j}

\* The store after one delete call per mode of req, in the given order.
RECURSIVE ApplyModes(_, _, _)
ApplyModes(st, req, order) ==
  IF order = <<>> THEN st
  ELSE ApplyModes(Delete(NewOp("delete", OnlyMode(req, Head(order))), st).store,
                  req, Tail(order))

\* C18: a delete with any combination of ids, filter and deleteAll leaves
\* the store that one delete per requested mode leaves, in whatever order
\* the modes are applied, and leaves the rows of other namespaces as they
\* were.
C18_DeleteCombination ==
  [][(last = NoCall /\ last'.kind = "delete") =>
       (LET req == last'.req
        IN /\ \A order \in ModeOrders(RequestedModes(req)) :
                store' = ApplyModes(store, req, order)
           /\ \A id \in Ids :
                (store[id].present
                   /\ store[id].namespace # Namespace(req.namespace))
                  => store'[id] = store[id])]_vars

\* A delete by ids and by filter has removed a row by each, and a row of
\* another namespace is still there.
C18_Witness ==
  /\ last.kind = "delete"
  /\ Len(last.stmts) = 2
  /\ last.stmts[1].rows # {}
  /\ last.stmts[2].rows # {}
  /\ last.stmts[1].rows # last.stmts[2].rows

\* C19: right after an upsert, fetching the id of a document that was
\* upserted with an explicit vector, in the same namespace, returns the
\* metadata and the vector that were upserted.
C19_UpsertFetchRoundTrip ==
  (last.kind = "upsert" /\ last.outcome = "ok") =>
    \A i \in 1..Len(last.req.documents) :
      LET doc == last.req.documents[i]
          fetched == Fetch(NewOp("fetch", [ids |-> <<doc.id>>,
                                           namespace |-> last.req.namespace]),
                           store, <<"x", "y">>).op.result
      IN doc.vector # <<>> =>
           /\ Len(fetched) = 1
           /\ fetched[1].metadata = doc.metadata
           /\ fetched[1].vector = doc.vector[1]

\* C20: the handle the calls go through has the dimension and the
\* embedding model the collection was created with, whether it came from
\* createCollection or from getCollection after a disconnect.
C20_ConfigImmutable ==
  /\ config.dimension = client.created.dimension
  /\ config.embeddingModel = client.created.embeddingModel

\* C21: an upsert with a document that has neither a vector nor a text is
\* rejected and the document is not written, with or without an embedding
\* model.
C21_NoVectorNoTextRejected ==
  (/\ last.kind = "upsert"
   /\ \E i \in 1..Len(last.req.documents) :
        /\ last.req.documents[i].vector = <<>>
        /\ last.req.documents[i].text = "")
    => /\ last.outcome # "ok"
       /\ \A i \in 1..Len(last.req.documents) :
            (last.req.documents[i].vector = <<>>
               /\ last.req.documents[i].text = "")
              => ~(/\ store[last.req.documents[i].id].present
                   /\ store[last.req.documents[i].id].text = ""
                   /\ store[last.req.documents[i].id].namespace
                        = Namespace(last.req.namespace))

\* C22: client.search returns normally only when the search of every
\* collection it went through succeeded: no failure of the store or of the
\* provider is caught and left out of the outcome.
C22_NoErrorSwallowed ==
  (last.kind = "clientSearch" /\ last.outcome = "ok")
    => last.result.logged = <<>>

\* C23: the gate only delays: every task waiting in the queue is
\* eventually started (its provider call is issued), and every call that
\* awaits its embedding eventually returns.
C23_GateOnlyDelays ==
  /\ \A s \in Slots, b \in 1..MaxTexts :
       (\E i \in 1..Len(queue.waiting) : queue.waiting[i] = <<s, b>>)
         ~> (<<s, b>> \in queue.running)
  /\ \A s \in Slots : (ops[s].pc = "embedding") ~> (ops[s].pc # "embedding")

\* A task waits in the queue because the interval cap is used up, with no
\* task running.
C23_Witness ==
  /\ Len(queue.waiting) > 0
  /\ queue.running = {}
  /\ queue.intervalCount = IntervalCap

\* The input indices an embed call found no cache entry for, while it
\* awaits its batches: the indices of results that hold no vector.
Misses(op) ==
  {i \in 1..Len(op.texts) : i > Len(op.results) \/ op.results[i] = Hole}

\* The items of all the batches of a call, batch after batch.
BatchItems(op) == Flat([b \in 1..Len(op.batches) |-> op.batches[b].items])

\* C24: while an embed call awaits its batches, every missed index is in
\* exactly one batch, with its text; the batches keep the misses in input
\* order; and no batch holds more than BatchSize texts.
C24_BatchesPartitionMisses ==
  \A s \in Slots :
    (ops[s].kind \in {"embed", "upsert"} /\ ops[s].embed = "waiting") =>
      LET items == BatchItems(ops[s])
      IN /\ {items[i].index : i \in 1..Len(items)} = Misses(ops[s])
         /\ \A i, j \in 1..Len(items) :
              i < j => items[i].index < items[j].index
         /\ \A i \in 1..Len(items) :
              items[i].text = ops[s].texts[items[i].index]
         /\ \A b \in 1..Len(ops[s].batches) :
              /\ Len(ops[s].batches[b].items) >= 1
              /\ Len(ops[s].batches[b].items) <= BatchSize

\* An embed call awaits two batches, the first of them full.
C24_Witness ==
  /\ ops[1].kind = "embed" /\ ops[1].embed = "waiting"
  /\ Len(ops[1].batches) = 2
  /\ Len(ops[1].batches[1].items) = BatchSize
  /\ Misses(ops[1]) = 1..Len(ops[1].texts)

\* An embed call awaits a batch of misses that come after a cache hit.
C24_WitnessAfterHit ==
  /\ ops[1].kind = "embed" /\ ops[1].embed = "waiting"
  /\ Misses(ops[1]) # {}
  /\ 1 \notin Misses(ops[1])

\* C25: the batches of one embed call carry each text at most once, however
\* often the text occurs in the input.
C25_DeduplicatedWithinCall ==
  \A s \in Slots :
    (ops[s].kind \in {"embed", "upsert"} /\ ops[s].embed = "waiting") =>
      LET items == BatchItems(ops[s])
      IN \A i, j \in 1..Len(items) :
           items[i].text = items[j].text => i = j

\* The keys of the cache, least recently used first.
KeysOf(c) == [i \in 1..Len(c) |-> c[i].key]

TaskTexts(s, b) ==
  {ops[s].batches[b].items[i].text : i \in 1..Len(ops[s].batches[b].items)}

\* C27: two calls that await their embeddings at the same time have no
\* provider call in flight each for the same (model, text).
C27_SingleCallWhenOverlapping ==
  \A s1, s2 \in Slots :
    (/\ s1 # s2
     /\ ops[s1].pc = "embedding" /\ ops[s2].pc = "embedding"
     /\ ops[s1].model = ops[s2].model)
      => \A t1 \in queue.running, t2 \in queue.running :
           (t1[1] = s1 /\ t2[1] = s2)
             => TaskTexts(s1, t1[2]) \cap TaskTexts(s2, t2[2]) = {}

\* C28: a call of embed that is rejected leaves the cache as it was, at
\* its rejection and when the provider answers its other batches later:
\* their vectors are not cached; and a batch of the rejected call that
\* still waits in the queue is started all the same.
C28_FailedCallCachesNothing ==
  /\ [][\A s \in Slots :
          /\ (ops[s].pc = "zombie" /\ ops'[s] # ops[s]) => cache' = cache
          /\ (/\ ops[s].pc = "embedding" /\ ops'[s].pc # "embedding"
              /\ last'.outcome = "EmbeddingError") => cache' = cache]_vars
  /\ \A s \in Slots, b \in 1..MaxTexts :
       (ops[s].pc = "zombie" /\ <<s, b>> \in Range(queue.waiting))
         ~> (<<s, b>> \in queue.running)

\* An embed call has been rejected while its second batch waits in the
\* queue.
C28_Witness ==
  /\ ops[1].pc = "zombie"
  /\ <<1, 2>> \in Range(queue.waiting)

\* C29: between two disconnects a client creates at most one connection
\* pool.
C29_AtMostOnePool == client.pools <= 1

\* The ids of the matches of a search response.
MatchIds(result) == {result.matches[i].id : i \in 1..Len(result.matches)}

\* C30: a delete without ids and deleteAll whose filter compiles to no
\* predicate sends no statement and leaves the store as it is, while a
\* search whose filter compiles to no predicate sends no predicate beyond
\* the namespace and, when topK allows, matches every row of the namespace.
C30_EmptyFilterDeletesNothing ==
  /\ [][(/\ last = NoCall /\ last'.kind = "delete"
         /\ ~last'.req.deleteAll /\ last'.req.ids = <<>>
         /\ buildFilterConditions(last'.req.filter) = <<>>)
          => (store' = store /\ last'.stmts = <<>>)]_vars
  /\ [](LET rows == Selected(store, Namespace(last.req.namespace), <<>>)
        IN (/\ last.kind = "search" /\ last.outcome = "ok"
            /\ buildFilterConditions(last.req.filter) = <<>>)
             => /\ last.stmts[1].where = <<>>
                /\ (last.req.topK = <<>> /\ Cardinality(rows) <= DefaultTopK)
                     => MatchIds(last.result) = rows)

\* A delete by a filter that compiles to no predicate has returned, and
\* the rows of its namespace are still there.
C30_Witness ==
  /\ last.kind = "delete"
  /\ ~last.req.deleteAll /\ last.req.ids = <<>>
  /\ last.stmts = <<>>
  /\ Selected(store, Namespace(last.req.namespace), <<>>) # {}

====
